---------------------------- MODULE Spec2Model ----------------------------
(***************************************************************************)
(* bt2disk: save the tables of a BigTable instance into a sqlite file and  *)
(* restore them from it (src/bt2disk.go).                                  *)
(*                                                                         *)
(* Strings and byte slices are sequences of byte values (0..255).  A       *)
(* uint32 is a pair <<hi, lo>> of 16-bit limbs (value hi * 2^16 + lo),     *)
(* because the values exceed the integers TLC computes with.               *)
(***************************************************************************)
EXTENDS Integers, Sequences, FiniteSets, TLC

(***************************************************************************)
(* Bounds of the model.                                                    *)
(***************************************************************************)
\* process invocations (save or restore) in one behaviour
MaxRuns == 2
\* changes made to the stores from outside, between two invocations
MaxEnvSteps == 1
\* largest number of rows of the snapshot table in the batch specification
MaxBatchRows == 102

(***************************************************************************)
(* Byte strings.                                                           *)
(***************************************************************************)
RECURSIVE HasPrefix(_, _)
\* strings.HasPrefix(s, p)
HasPrefix(s, p) ==
    IF p = <<>> THEN TRUE
    ELSE IF s = <<>> THEN FALSE
    ELSE Head(s) = Head(p) /\ HasPrefix(Tail(s), Tail(p))

\* strings.TrimPrefix(s, p): s without the leading p, once, or s unchanged
TrimPrefix(s, p) ==
    IF HasPrefix(s, p) THEN SubSeq(s, Len(p) + 1, Len(s)) ELSE s

RECURSIVE StrLess(_, _)
\* s < t for Go strings: bytewise lexicographic
StrLess(s, t) ==
    IF t = <<>> THEN FALSE
    ELSE IF s = <<>> THEN TRUE
    ELSE IF Head(s) # Head(t) THEN Head(s) < Head(t)
    ELSE StrLess(Tail(s), Tail(t))

RECURSIVE Insert(_, _)
Insert(x, sorted) ==
    IF sorted = <<>> THEN <<x>>
    ELSE IF StrLess(Head(sorted), x) THEN <<Head(sorted)>> \o Insert(x, Tail(sorted))
    ELSE <<x>> \o sorted

RECURSIVE SortStrings(_)
\* sort.Strings(l)
SortStrings(l) ==
    IF l = <<>> THEN <<>> ELSE Insert(Head(l), SortStrings(Tail(l)))

Range(f) == {f[i] : i \in DOMAIN f}

\* the orders a store may enumerate the members of S in
Orderings(S) ==
    {l \in [1..Cardinality(S) -> S] : Range(l) = S}

RECURSIVE Digits(_, _)
\* n in decimal, zero padded to w digits (ASCII)
Digits(n, w) ==
    IF w = 0 THEN <<>> ELSE Digits(n \div 10, w - 1) \o <<48 + (n % 10)>>

RECURSIVE TrimZeros(_)
\* s without its trailing ASCII zeros
TrimZeros(s) ==
    IF s # <<>> /\ s[Len(s)] = 48 THEN TrimZeros(SubSeq(s, 1, Len(s) - 1)) ELSE s

(***************************************************************************)
(* hash/fnv New32a: FNV-1a over 32 bits.                                   *)
(***************************************************************************)
RECURSIVE XorBits(_, _, _)
XorBits(a, b, n) ==
    IF n = 0 THEN 0
    ELSE ((a + b) % 2) + 2 * XorBits(a \div 2, b \div 2, n - 1)

\* offset basis 0x811C9DC5
FnvOffset32 == <<33052, 40389>>

\* hash ^= b ; hash *= 0x01000193 (mod 2^32)
FnvStep(h, b) ==
    LET lo == (h[2] - (h[2] % 256)) + XorBits(h[2] % 256, b, 8)
        p  == lo * 403
    IN  <<(h[1] * 403 + lo * 256 + (p \div 65536)) % 65536, p % 65536>>

RECURSIVE FnvWrite(_, _)
\* hasher.Write(bytes): FnvStep for each byte, first to last.  The bytes are
\* taken in two halves to keep the evaluation shallow; comparing h makes TLC
\* compute it before it goes on.
FnvWrite(h, bytes) ==
    IF bytes = <<>> \/ h = <<>> THEN h
    ELSE IF Len(bytes) = 1 THEN FnvStep(h, bytes[1])
    ELSE LET m == Len(bytes) \div 2
         IN  FnvWrite(FnvWrite(h, SubSeq(bytes, 1, m)), SubSeq(bytes, m + 1, Len(bytes)))

(***************************************************************************)
(* fmt.Fprintf(w, format) with no operands: the text it writes.  "%%"      *)
(* writes "%", "%" and a verb x writes "%!x(MISSING)", a "%" that ends the *)
(* format writes "%!(NOVERB)".  The strings of the model hold no flag,     *)
(* width, precision or argument-index characters.                          *)
(***************************************************************************)
MissingString == <<40, 77, 73, 83, 83, 73, 78, 71, 41>>
NoVerbString == <<37, 33, 40, 78, 79, 86, 69, 82, 66, 41>>

RECURSIVE Sprintf(_)
Sprintf(format) ==
    IF format = <<>> THEN <<>>
    ELSE IF Head(format) # 37 THEN <<Head(format)>> \o Sprintf(Tail(format))
    ELSE IF Len(format) = 1 THEN NoVerbString
    ELSE IF format[2] = 37 THEN <<37>> \o Sprintf(SubSeq(format, 3, Len(format)))
    ELSE <<37, 33, format[2]>> \o MissingString \o Sprintf(SubSeq(format, 3, Len(format)))

(***************************************************************************)
(* Time.  A bigtable.Timestamp counts microseconds; the snapshot stores    *)
(* nanoseconds; the checksum covers the RFC3339Nano text of the time in    *)
(* the process's local zone (time.Unix returns a local Time).  A zone is   *)
(* its offset from UTC in seconds.                                         *)
(***************************************************************************)
\* item.Timestamp.Time().UnixNano()
UnixNano(micros) == micros * 1000

\* bigtable.Time(time.Unix(0, ns)): Timestamp(t.UnixNano() / 1e3)
BigtableTime(ns) == ns \div 1000

\* the civil date <<year, month, day>> of a day number (days since 1970-01-01)
CivilFromDays(days) ==
    LET z   == days + 719468
        era == z \div 146097
        doe == z - era * 146097
        yoe == (doe - (doe \div 1460) + (doe \div 36524) - (doe \div 146096)) \div 365
        doy == doe - (365 * yoe + (yoe \div 4) - (yoe \div 100))
        mp  == (5 * doy + 2) \div 153
        d   == doy - ((153 * mp + 2) \div 5) + 1
        m   == IF mp < 10 THEN mp + 3 ELSE mp - 9
        y   == yoe + era * 400 + (IF m <= 2 THEN 1 ELSE 0)
    IN  <<y, m, d>>

\* time.Unix(0, ns).Format(time.RFC3339Nano) in the zone with offset off:
\* "2006-01-02T15:04:05.999999999Z07:00"
FormatRFC3339Nano(ns, off) ==
    LET sec   == ns \div 1000000000
        nsec  == ns % 1000000000
        local == sec + off
        date  == CivilFromDays(local \div 86400)
        sod   == local % 86400
        frac  == IF nsec = 0 THEN <<>> ELSE <<46>> \o TrimZeros(Digits(nsec, 9))
        abs   == IF off < 0 THEN -off ELSE off
        zone  == IF off = 0 THEN <<90>>
                 ELSE <<IF off < 0 THEN 45 ELSE 43>> \o Digits(abs \div 3600, 2)
                      \o <<58>> \o Digits((abs % 3600) \div 60, 2)
    IN  Digits(date[1], 4) \o <<45>> \o Digits(date[2], 2) \o <<45>> \o Digits(date[3], 2)
        \o <<84>> \o Digits(sod \div 3600, 2) \o <<58>> \o Digits((sod % 3600) \div 60, 2)
        \o <<58>> \o Digits(sod % 60, 2) \o frac \o zone

(***************************************************************************)
(* The checksum both pipelines compute: key, family and column written     *)
(* with Fprintf (as formats), the value written raw, the formatted time    *)
(* written with Fprintf.                                                   *)
(***************************************************************************)
Checksum(key, cf, col, value, ns, off) ==
    FnvWrite(FnvWrite(FnvWrite(FnvWrite(FnvWrite(FnvOffset32,
        Sprintf(key)), Sprintf(cf)), Sprintf(col)), value),
        Sprintf(FormatRFC3339Nano(ns, off)))

(***************************************************************************)
(* The data of the model.                                                  *)
(***************************************************************************)
Str_a == <<97>>
Str_b == <<98>>
\* a name sqlite accepts for a user table (only the prefix "sqlite_" is reserved)
Str_sqlitex == <<115, 113, 108, 105, 116, 101, 120>>
TableNames == {Str_a, Str_b, Str_sqlitex}

Str_f == <<102>>
Str_g == <<103>>
Str_q == <<113>>
Str_r == <<114>>

\* the zones a process may run in: UTC and UTC+01:00
TZOffsets == {0, 3600}

\* A cell of the remote store: ts is a bigtable.Timestamp (microseconds).
Cell(row, family, qual, ts, value) ==
    [row |-> row, family |-> family, qual |-> qual, ts |-> ts, value |-> value]

\* the remote store when the first process starts
InitialCells ==
    [t \in TableNames |->
        IF t = Str_a THEN
            { Cell(Str_r, Str_f, Str_q, 1000, <<>>),
              \* a qualifier that itself starts with "g:", a value with a zero byte
              Cell(Str_r, Str_g, <<103, 58, 113>>, 0, <<0, 1>>) }
        ELSE IF t = Str_b THEN
            \* a row key that holds a "%"
            { Cell(<<37, 100>>, Str_f, Str_q, 2000, <<7>>) }
        ELSE
            { Cell(Str_r, Str_f, Str_q, 0, <<1>>) }]

\* the cell an application writes between two invocations
EnvCell == Cell(Str_r, Str_f, Str_q, 3000, <<0>>)

VARIABLES
    btTables,   \* the tables of the remote store (adminClient.Tables)
    btCells,    \* table -> the cells it holds
    dbTables,   \* the tables of the sqlite file
    dbRows,     \* table -> its rows, in storage order
    pc,         \* where the process is; "idle": no process is running
    mode,       \* "save" or "restore": the verb of the current/last process
    loc,        \* the local zone (offset) of the current/last process
    result,     \* what the last process returned: "ok" or the error
    tables,     \* Restore/SaveAll: the sorted listing of remote tables
    ti,         \* index of the loop over tables
    table,      \* SaveTable/RestoreTable: the table argument
    lastKey,    \* SaveTable: the key of the last row ReadRows delivered
    pending,    \* SaveTable: the items of the delivered row not yet inserted
    rowErr,     \* SaveTable: the row key rowErr names, <<>> while rowErr is nil
    snaptables, \* Restore: the rows of the sqlite_master query
    si,         \* Restore: rows of that query consumed
    rpos,       \* RestoreTable: rows of the table query consumed
    keys,       \* RestoreTable: keys of the pending batch
    muts,       \* RestoreTable: mutations of the pending batch
    c,          \* SaveTable/RestoreTable: the row counter
    runs,       \* processes started so far
    envSteps,   \* outside changes so far
    log,        \* the store calls, invocations and returns of the current process
    origin,     \* table -> the cells its snapshot was saved from, if it was
                \* saved completely and not altered since
    prev,       \* the process before the current one: verb, result, the
                \* snapshot it left, whether it called ApplyBulk
    dirty       \* the stores were changed from outside since the last process

storeVars == <<btTables, btCells, dbTables, dbRows>>
saveVars == <<lastKey, pending, rowErr>>
restoreVars == <<snaptables, si, rpos, keys, muts>>
procVars == <<mode, loc, tables, ti, table, c>>
histVars == <<runs, envSteps, origin, prev, dirty>>
vars == <<btTables, btCells, dbTables, dbRows, pc, mode, loc, result, tables, ti,
          table, lastKey, pending, rowErr, snaptables, si, rpos, keys, muts, c, runs,
          envSteps, log, origin, prev, dirty>>

NoOrigin == [saved |-> FALSE, cells |-> {}]
NoPrev == [mode |-> "none", result |-> "none", rows |-> [t \in TableNames |-> <<>>],
           wrote |-> FALSE, clean |-> FALSE]

\* a log entry: kind is "call" (a call to a store), "enter" or "ret"
Event(kind, op, t, ok, batch) ==
    [kind |-> kind, op |-> op, table |-> t, ok |-> ok, batch |-> batch]
Call(op, t, ok) == Event("call", op, t, ok, <<>>)

Init ==
    /\ btTables = TableNames
    /\ btCells = InitialCells
    /\ dbTables = {}
    /\ dbRows = [t \in TableNames |-> <<>>]
    /\ pc = "idle"
    /\ mode = "none"
    /\ loc = 0
    /\ result = "none"
    /\ tables = <<>>
    /\ ti = 1
    /\ table = <<>>
    /\ lastKey = <<>>
    /\ pending = <<>>
    /\ rowErr = <<>>
    /\ snaptables = <<>>
    /\ si = 0
    /\ rpos = 0
    /\ keys = <<>>
    /\ muts = <<>>
    /\ c = 0
    /\ runs = 0
    /\ envSteps = 0
    /\ log = <<>>
    /\ origin = [t \in TableNames |-> NoOrigin]
    /\ prev = NoPrev
    /\ dirty = FALSE

(***************************************************************************)
(* A process starts (cmd/main.go runs one verb and exits).                 *)
(***************************************************************************)
StartProcess(verb) ==
    /\ pc = "idle"
    /\ runs < MaxRuns
    /\ runs' = runs + 1
    /\ mode' = verb
    /\ \E off \in TZOffsets : loc' = off
    /\ prev' = [mode |-> mode, result |-> IF result \in {"ok", "none"} THEN result ELSE "error",
                rows |-> dbRows,
                wrote |-> \E i \in DOMAIN log : log[i].op = "ApplyBulk",
                clean |-> ~dirty]
    /\ dirty' = FALSE
    /\ result' = "none"
    /\ ti' = 1
    /\ table' = <<>>
    /\ lastKey' = <<>>
    /\ pending' = <<>>
    /\ rowErr' = <<>>
    /\ snaptables' = <<>>
    /\ si' = 0
    /\ rpos' = 0
    /\ keys' = <<>>
    /\ muts' = <<>>
    /\ c' = 0

\* the process returns err from its verb (log.Fatalf in main)
Abort(err, events) ==
    /\ pc' = "idle"
    /\ result' = err
    /\ log' = log \o events

SortTablesOmitted(listing) == listing
\* sort.Strings(tables)
SortTables(listing) == SortStrings(listing)

(***************************************************************************)
(* SaveAll                                                                 *)
(***************************************************************************)
\* adminClient.Tables and the sort
SaveAll_Tables ==
    /\ StartProcess("save")
    /\ \/ /\ \E listing \in Orderings(btTables) : tables' = SortTables(listing)
          /\ pc' = "save_loop"
          /\ log' = <<Call("Tables", <<>>, TRUE)>>
       \/ /\ tables' = <<>>
          /\ pc' = "idle"
          /\ result' = "failed to list BT tables"
          /\ log' = <<Call("Tables", <<>>, FALSE)>>
    /\ UNCHANGED <<storeVars, envSteps, origin>>

\* the loop over tables: call SaveTable on the next one, or return nil
SaveAll_Loop ==
    /\ pc = "save_loop"
    /\ IF ti <= Len(tables)
       THEN /\ table' = tables[ti]
            /\ pc' = "st_drop"
            /\ c' = 0
            /\ lastKey' = <<>>
            /\ log' = Append(log, Event("enter", "SaveTable", tables[ti], TRUE, <<>>))
            /\ UNCHANGED result
       ELSE /\ pc' = "idle"
            /\ result' = "ok"
            /\ UNCHANGED <<table, c, lastKey, log>>
    /\ UNCHANGED <<storeVars, mode, loc, tables, ti, pending, rowErr, restoreVars,
                   histVars>>

OnSaveTableErrorContinue == "save_loop"
\* where SaveAll goes when SaveTable returned an error: it returns the error
OnSaveTableError == "idle"

\* SaveTable returns an error: SaveAll wraps and returns it
SaveTableFails(err, call) ==
    /\ pc' = OnSaveTableError
    /\ result' = err
    /\ log' = log \o <<call, Event("ret", "SaveTable", table, FALSE, <<>>)>>
    /\ UNCHANGED <<procVars, saveVars, restoreVars, runs, envSteps, prev, dirty>>

RowsAfterDropKept(rows) == rows
\* the rows a table of that name has once it is dropped and created again
RowsAfterDrop(rows) == <<>>

\* DROP TABLE IF EXISTS "table"
SaveTable_Drop ==
    /\ pc = "st_drop"
    /\ \/ /\ dbTables' = dbTables \ {table}
          /\ dbRows' = [dbRows EXCEPT ![table] = RowsAfterDrop(@)]
          /\ origin' = [origin EXCEPT ![table] = NoOrigin]
          /\ pc' = "st_create"
          /\ log' = Append(log, Call("DropTable", table, TRUE))
          /\ UNCHANGED <<btTables, btCells, result, procVars, saveVars, restoreVars,
                         runs, envSteps, prev, dirty>>
       \/ /\ SaveTableFails("failed to DROP TABLE", Call("DropTable", table, FALSE))
          /\ UNCHANGED <<storeVars, origin>>

\* CREATE TABLE IF NOT EXISTS "table" (key, column_family, column, value, timestamp, chk)
SaveTable_Create ==
    /\ pc = "st_create"
    /\ \/ /\ dbTables' = dbTables \cup {table}
          /\ pc' = "st_prepare"
          /\ log' = Append(log, Call("CreateTable", table, TRUE))
          /\ UNCHANGED <<btTables, btCells, dbRows, result, procVars, saveVars,
                         restoreVars, histVars>>
       \/ /\ SaveTableFails("failed to CREATE TABLE", Call("CreateTable", table, FALSE))
          /\ UNCHANGED <<storeVars, origin>>

\* db.Prepare(INSERT INTO "table" VALUES (?, ?, ?, ?, ?, ?))
SaveTable_Prepare ==
    /\ pc = "st_prepare"
    /\ \/ /\ pc' = "st_read"
          /\ log' = Append(log, Call("PrepareInsert", table, TRUE))
          /\ UNCHANGED <<storeVars, result, procVars, saveVars, restoreVars, histVars>>
       \/ /\ SaveTableFails("failed to prepare INSERT", Call("PrepareInsert", table, FALSE))
          /\ UNCHANGED <<storeVars, origin>>

\* the row keys of a table after key k, and the least of them
KeysAfter(cells, k) == {x.row : x \in {y \in cells : StrLess(k, y.row)}}
LeastKey(ks) == CHOOSE k \in ks : \A o \in ks : o = k \/ StrLess(k, o)

\* a bigtable.ReadItem: Column is the qualifier prefixed with "family:"
ReadItem(cell) ==
    [Row |-> cell.row, Column |-> cell.family \o <<58>> \o cell.qual,
     Timestamp |-> cell.ts, Value |-> cell.value]

\* ReadRows' order inside a family: by column, newest timestamp first
ItemBefore(x, y) ==
    \/ StrLess(x.qual, y.qual)
    \/ x.qual = y.qual /\ x.ts > y.ts

\* the items of one family of a row in ReadRows' order: the item with k items
\* before it is the (k+1)-th
FamilyItems(cells) ==
    LET ranked == {<<Cardinality({y \in cells : ItemBefore(y, x)}) + 1, ReadItem(x)>> :
                      x \in cells}
    IN  [i \in 1..Cardinality(cells) |-> (CHOOSE p \in ranked : p[1] = i)[2]]

RECURSIVE RowItems(_, _)
\* the (family, item) pairs the callback's two loops visit for a bigtable.Row,
\* the families in the order fams (the iteration order of a Go map)
RowItems(cells, fams) ==
    IF fams = <<>> THEN <<>>
    ELSE LET items == FamilyItems({x \in cells : x.family = Head(fams)})
         IN  [i \in 1..Len(items) |-> [cf |-> Head(fams), item |-> items[i]]]
             \o RowItems(cells, Tail(fams))

StoredColumnQualified(cf, item) == item.Column
\* the column SaveTable stores: strings.TrimPrefix(item.Column, cf+":")
StoredColumn(cf, item) == TrimPrefix(item.Column, cf \o <<58>>)

\* the snapshot row SaveTable inserts for an item of family cf
SnapshotRow(cf, item, off) ==
    LET col == StoredColumn(cf, item)
        ns  == UnixNano(item.Timestamp)
    IN  [key |-> item.Row, column_family |-> cf, column |-> col, value |-> item.Value,
         timestamp |-> ns,
         chk |-> Checksum(item.Row, cf, col, item.Value, ns, off)]

\* tbl.ReadRows delivers the next row to the callback, ends, or fails
SaveTable_ReadRows ==
    /\ pc = "st_read"
    /\ LET ks == KeysAfter(btCells[table], lastKey)
       IN  \/ /\ ks # {}
              /\ LET k   == LeastKey(ks)
                     row == {x \in btCells[table] : x.row = k}
                 IN  /\ lastKey' = k
                     /\ \E fams \in Orderings({x.family : x \in row}) :
                            pending' = RowItems(row, fams)
              /\ pc' = "st_insert"
              /\ UNCHANGED <<storeVars, result, procVars, rowErr, restoreVars, histVars,
                             log>>
           \/ /\ ks = {}
              \* ReadRows returns nil, rowErr is nil: SaveTable returns nil
              /\ pc' = "save_loop"
              /\ ti' = ti + 1
              /\ origin' = [origin EXCEPT ![table] =
                               [saved |-> TRUE, cells |-> btCells[table]]]
              /\ log' = log \o <<Call("ReadRows", table, TRUE),
                                 Event("ret", "SaveTable", table, TRUE, <<>>)>>
              /\ UNCHANGED <<storeVars, result, mode, loc, tables, table, c, saveVars,
                             restoreVars, runs, envSteps, prev, dirty>>
           \/ /\ SaveTableFails("failure while iterating rows",
                                Call("ReadRows", table, FALSE))
              /\ UNCHANGED <<storeVars, origin>>

RowErrKeyOmitted(key) == <<>>
\* row.Key(), the key the error of a failed insert names
RowErrKey(key) == key

\* insertStmt.Exec for the next item of the row: the callback goes on with the
\* row, returns true after its last item, or sets rowErr and returns false
SaveTable_Insert ==
    /\ pc = "st_insert"
    /\ pending # <<>>
    /\ LET it == Head(pending)
       IN  \/ /\ dbRows' = [dbRows EXCEPT ![table] =
                               Append(@, SnapshotRow(it.cf, it.item, loc))]
              /\ c' = c + 1
              /\ pending' = Tail(pending)
              /\ pc' = IF Tail(pending) = <<>> THEN "st_read" ELSE "st_insert"
              /\ log' = Append(log, Call("Insert", table, TRUE))
              /\ UNCHANGED <<btTables, btCells, dbTables, result, mode, loc, tables, ti,
                             table, lastKey, rowErr, restoreVars, histVars>>
           \/ \* rowErr = fmt.Errorf("failed to save row %s: %s", row.Key(), err);
              \* the callback returns false, ReadRows nil, SaveTable rowErr
              /\ pc' = OnSaveTableError
              /\ result' = "failed to save row"
              /\ rowErr' = RowErrKey(it.item.Row)
              /\ log' = log \o <<Call("Insert", table, FALSE),
                                 Event("ret", "SaveTable", table, FALSE, <<>>)>>
              /\ UNCHANGED <<storeVars, procVars, lastKey, pending, restoreVars,
                             histVars>>

(***************************************************************************)
(* Restore                                                                 *)
(***************************************************************************)
Lower(b) == IF b >= 65 /\ b <= 90 THEN b + 32 ELSE b

RECURSIVE Like(_, _)
\* sqlite's  s LIKE pat : "%" matches any run of characters, "_" any one
\* character, letters match without regard to case
Like(s, pat) ==
    IF pat = <<>> THEN s = <<>>
    ELSE IF Head(pat) = 37 THEN Like(s, Tail(pat)) \/ (s # <<>> /\ Like(Tail(s), pat))
    ELSE /\ s # <<>>
         /\ (Head(pat) = 95 \/ Lower(Head(s)) = Lower(Head(pat)))
         /\ Like(Tail(s), Tail(pat))

\* WHERE type='table' AND name NOT LIKE 'sqlite_%'
ListedBySqlite(name) == ~Like(name, <<115, 113, 108, 105, 116, 101, 95, 37>>)

VerifiesUnchecked(row, off) == TRUE
\* the checksum RestoreTable computes from a scanned row, against the stored one
Verifies(row, off) ==
    row.chk = Checksum(row.key, row.column_family, row.column, row.value,
                       row.timestamp, off)

\* m.Set(cf, col, bigtable.Time(timestamp), value), with the key it is filed under
Mutation(row) ==
    [key |-> row.key, family |-> row.column_family, column |-> row.column,
     ts |-> BigtableTime(row.timestamp), value |-> row.value]

\* len(muts) == 100
BatchSize == 100
BatchFullLate(m) == Len(m) > BatchSize
BatchFullEarly(m) == Len(m) = BatchSize - 1
BatchFull(m) == Len(m) = BatchSize

AfterFlushKept(batch) == batch
\* keys = nil, muts = nil after a flush in the loop
AfterFlush(batch) == <<>>

\* len(muts) > 0 after the loop
NeedsFinalFlush(m) == Len(m) > 0

filterErrorsDropped(errs) == <<>>
\* filterErrors: the non-nil errors of errs
filterErrors(errs) == SelectSeq(errs, LAMBDA e : e # "nil")

\* SetCell applied by the store: the cell replaces the cell of the same row,
\* column and timestamp; an entry the store did not apply changes nothing
ApplyMutation(cells, k, m, ok) ==
    LET cell == Cell(k, m.family, m.column, m.ts, m.value)
        same == {x \in cells : /\ x.row = cell.row
                               /\ x.family = cell.family
                               /\ x.qual = cell.qual
                               /\ x.ts = cell.ts}
    IN  IF ok THEN (cells \ same) \cup {cell} ELSE cells

RECURSIVE ApplyMutations(_, _, _, _)
\* the cells of a table after the store applied the entries i of the batch with
\* applied[i], in order.  The batch is taken in two halves, left half first,
\* to keep the evaluation shallow; counting the cells makes TLC compute them
\* before it goes on.
ApplyMutations(cells, ks, ms, applied) ==
    IF ms = <<>> \/ Cardinality(cells) < 0 THEN cells
    ELSE IF Len(ms) = 1 THEN ApplyMutation(cells, ks[1], ms[1], applied[1])
    ELSE LET n == Len(ms)
             h == n \div 2
         IN  ApplyMutations(ApplyMutations(cells, SubSeq(ks, 1, h), SubSeq(ms, 1, h),
                                           SubSeq(applied, 1, h)),
                            SubSeq(ks, h + 1, n), SubSeq(ms, h + 1, n),
                            SubSeq(applied, h + 1, n))

\* what ApplyBulk may answer for a batch of n entries: the per-entry errors
\* (none; the first entry; the last entry; all of them), or a call error with
\* none or all of the entries applied
BulkOutcomes(n) ==
    {[err |-> FALSE, errs |-> [i \in 1..n |-> IF i \in F THEN "error" ELSE "nil"]] :
        F \in {{}, {1}, {n}, 1..n}}
    \cup
    {[err |-> TRUE, errs |-> [i \in 1..n |-> e]] : e \in {"nil", "error"}}

\* Restore returns an error met outside RestoreTable
RestoreFails(err, call) ==
    /\ Abort(err, <<call>>)
    /\ UNCHANGED <<procVars, saveVars, restoreVars, histVars>>

\* RestoreTable returns an error: Restore wraps and returns it
RestoreTableFails(err, events) ==
    /\ Abort(err, events \o <<Event("ret", "RestoreTable", table, FALSE, <<>>)>>)
    /\ UNCHANGED <<procVars, saveVars, restoreVars, histVars>>

\* adminClient.Tables and the sort
Restore_Tables ==
    /\ StartProcess("restore")
    /\ \/ /\ \E listing \in Orderings(btTables) : tables' = SortTables(listing)
          /\ pc' = "rs_clear"
          /\ log' = <<Call("Tables", <<>>, TRUE)>>
       \/ /\ tables' = <<>>
          /\ pc' = "idle"
          /\ result' = "failed to list BT tables"
          /\ log' = <<Call("Tables", <<>>, FALSE)>>
    /\ UNCHANGED <<storeVars, envSteps, origin>>

AllClearedEarly(i, listing) == i >= Len(listing)
\* the loop over tables has ended
AllCleared(i, listing) == i > Len(listing)

CellsAfterDropAllRowsKept(cells) == cells
\* the cells of a table once DropAllRows returned nil
CellsAfterDropAllRows(cells) == {}

\* the loop over tables: adminClient.DropAllRows(table)
Restore_DropAllRows ==
    /\ pc = "rs_clear"
    /\ ~AllCleared(ti, tables)
    /\ \/ /\ btCells' = [btCells EXCEPT ![tables[ti]] = CellsAfterDropAllRows(@)]
          /\ ti' = ti + 1
          /\ log' = Append(log, Call("DropAllRows", tables[ti], TRUE))
          /\ UNCHANGED <<btTables, dbTables, dbRows, pc, result, mode, loc, tables,
                         table, c, saveVars, restoreVars, histVars>>
       \/ /\ RestoreFails("failed to delete table", Call("DropAllRows", tables[ti], FALSE))
          /\ UNCHANGED storeVars

\* db.Query(SELECT name FROM sqlite_master ...): no ORDER BY, any order
Restore_Query ==
    /\ pc = "rs_clear"
    /\ AllCleared(ti, tables)
    /\ \/ /\ \E listing \in Orderings({t \in dbTables : ListedBySqlite(t)}) :
                snaptables' = listing
          /\ si' = 0
          /\ pc' = "rs_next"
          /\ log' = Append(log, Call("QueryTables", <<>>, TRUE))
          /\ UNCHANGED <<storeVars, result, procVars, saveVars, rpos, keys, muts,
                         histVars>>
       \/ /\ RestoreFails("failed to query sqlite for list of tables",
                          Call("QueryTables", <<>>, FALSE))
          /\ UNCHANGED storeVars

\* rows.Next() and rows.Scan(&table) of the table listing, then the call of
\* RestoreTable; when Next returns false Restore returns nil, and it never reads
\* rows.Err()
Restore_Next ==
    /\ pc = "rs_next"
    /\ \/ /\ si < Len(snaptables)
          /\ table' = snaptables[si + 1]
          /\ si' = si + 1
          /\ pc' = "rt_query"
          /\ log' = Append(log, Event("enter", "RestoreTable", snaptables[si + 1],
                                      TRUE, <<>>))
          /\ UNCHANGED <<storeVars, result, mode, loc, tables, ti, c, saveVars, rpos,
                         keys, muts, snaptables, histVars>>
       \/ /\ si < Len(snaptables)
          /\ RestoreFails("failed to scan table-list results", Call("Scan", <<>>, FALSE))
          /\ UNCHANGED storeVars
       \/ /\ si = Len(snaptables)
          /\ pc' = "idle"
          /\ result' = "ok"
          /\ UNCHANGED <<storeVars, log, procVars, saveVars, restoreVars, histVars>>
       \/ \* Next returns false because the iteration failed
          /\ si < Len(snaptables)
          /\ pc' = "idle"
          /\ result' = "ok"
          /\ log' = Append(log, Call("Next", <<>>, FALSE))
          /\ UNCHANGED <<storeVars, procVars, saveVars, restoreVars, histVars>>

\* db.Query(SELECT key, column_family, column, value, timestamp, chk FROM "table")
RestoreTable_Query ==
    /\ pc = "rt_query"
    /\ \/ /\ rpos' = 0
          /\ keys' = <<>>
          /\ muts' = <<>>
          /\ c' = 0
          /\ pc' = "rt_next"
          /\ log' = Append(log, Call("QueryRows", table, TRUE))
          /\ UNCHANGED <<storeVars, result, mode, loc, tables, ti, table, saveVars,
                         snaptables, si, histVars>>
       \/ /\ RestoreTableFails("failed to query table contents",
                               <<Call("QueryRows", table, FALSE)>>)
          /\ UNCHANGED storeVars

\* RestoreTable returns nil: back in Restore's loop
RestoreTableReturns ==
    /\ pc' = "rs_next"
    /\ UNCHANGED <<storeVars, result, procVars, saveVars, restoreVars, histVars>>

\* one turn of the loop over the rows: rows.Next(), rows.Scan, the integrity
\* check, the append to the batch; or the end of the loop, when Next returns
\* false (rows.Err() is never read)
RestoreTable_Next ==
    /\ pc = "rt_next"
    /\ LET rows == dbRows[table]
           ends(events) ==
               IF NeedsFinalFlush(muts)
               THEN /\ pc' = "rt_final"
                    /\ log' = log \o events
                    /\ UNCHANGED <<storeVars, result, procVars, saveVars, restoreVars,
                                   histVars>>
               ELSE /\ RestoreTableReturns
                    /\ log' = log \o events
                               \o <<Event("ret", "RestoreTable", table, TRUE, <<>>)>>
       IN  \/ /\ rpos < Len(rows)
              /\ LET row == rows[rpos + 1]
                 IN  IF ~Verifies(row, loc)
                     THEN /\ RestoreTableFails("integrity check failed", <<>>)
                          /\ UNCHANGED storeVars
                     ELSE /\ rpos' = rpos + 1
                          /\ c' = c + 1
                          /\ keys' = Append(keys, row.key)
                          /\ muts' = Append(muts, Mutation(row))
                          /\ pc' = IF BatchFull(Append(muts, Mutation(row)))
                                   THEN "rt_flush" ELSE "rt_next"
                          /\ UNCHANGED <<storeVars, result, log, mode, loc, tables, ti,
                                         table, saveVars, snaptables, si, histVars>>
           \/ /\ rpos < Len(rows)
              /\ RestoreTableFails("failed to scan table-list results",
                                   <<Call("Scan", table, FALSE)>>)
              /\ UNCHANGED storeVars
           \/ /\ rpos = Len(rows)
              /\ ends(<<>>)
           \/ \* Next returns false because the iteration failed
              /\ rpos < Len(rows)
              /\ ends(<<Call("Next", table, FALSE)>>)

\* tbl.ApplyBulk(ctx, keys, muts), in the loop (a full batch) and after it
RestoreTable_ApplyBulk ==
    /\ pc \in {"rt_flush", "rt_final"}
    /\ LET batch == [i \in 1..Len(muts) |-> muts[i]]
       IN  \/ \* the table does not exist: the call fails
              /\ table \notin btTables
              /\ RestoreTableFails("failed to write to bigtable",
                                   <<Event("call", "ApplyBulk", table, FALSE, batch)>>)
              /\ UNCHANGED storeVars
           \/ /\ table \in btTables
              /\ \E out \in BulkOutcomes(Len(muts)) :
                   LET applied == [i \in 1..Len(muts) |-> out.errs[i] = "nil"]
                       failed  == out.err \/ Len(filterErrors(out.errs)) > 0
                       call    == Event("call", "ApplyBulk", table, ~failed, batch)
                   IN  /\ btCells' = [btCells EXCEPT ![table] =
                                         ApplyMutations(@, keys, muts, applied)]
                       /\ UNCHANGED <<btTables, dbTables, dbRows>>
                       /\ IF failed
                          THEN /\ Abort("failed to write to bigtable",
                                        <<call, Event("ret", "RestoreTable", table,
                                                      FALSE, <<>>)>>)
                               /\ UNCHANGED <<procVars, saveVars, restoreVars, histVars>>
                          ELSE IF pc = "rt_flush"
                          THEN /\ keys' = AfterFlush(keys)
                               /\ muts' = AfterFlush(muts)
                               /\ pc' = "rt_next"
                               /\ log' = Append(log, call)
                               /\ UNCHANGED <<result, procVars, saveVars, snaptables,
                                              si, rpos, histVars>>
                          ELSE /\ pc' = "rs_next"
                               /\ log' = log \o <<call, Event("ret", "RestoreTable",
                                                              table, TRUE, <<>>)>>
                               /\ UNCHANGED <<result, procVars, saveVars, restoreVars,
                                              histVars>>

(***************************************************************************)
(* Changes from outside, while no process runs.                            *)
(***************************************************************************)
\* the last process is gone: nothing of it is kept but what it left in the stores
EnvStep ==
    /\ pc = "idle"
    /\ envSteps < MaxEnvSteps
    /\ envSteps' = envSteps + 1
    /\ dirty' = TRUE
    /\ mode' = "none"
    /\ loc' = 0
    /\ result' = "none"
    /\ tables' = <<>>
    /\ ti' = 1
    /\ table' = <<>>
    /\ lastKey' = <<>>
    /\ pending' = <<>>
    /\ rowErr' = <<>>
    /\ snaptables' = <<>>
    /\ si' = 0
    /\ rpos' = 0
    /\ keys' = <<>>
    /\ muts' = <<>>
    /\ c' = 0
    /\ log' = <<>>
    /\ prev' = NoPrev
    /\ UNCHANGED <<pc, runs>>

\* an application writes a cell
EnvWriteCell ==
    /\ EnvStep
    /\ \E t \in btTables :
        /\ EnvCell \notin btCells[t]
        /\ btCells' = [btCells EXCEPT ![t] = @ \cup {EnvCell}]
    /\ UNCHANGED <<btTables, dbTables, dbRows, origin>>

\* a table of the remote store is deleted
EnvDeleteTable ==
    /\ EnvStep
    /\ \E t \in btTables :
        /\ btTables' = btTables \ {t}
        /\ btCells' = [btCells EXCEPT ![t] = {}]
    /\ UNCHANGED <<dbTables, dbRows, origin>>

\* one byte of the value of a stored snapshot row changes
EnvCorruptRow ==
    /\ EnvStep
    /\ \E t \in dbTables : \E i \in DOMAIN dbRows[t] :
        /\ dbRows[t][i].value # <<>>
        /\ dbRows' = [dbRows EXCEPT ![t][i].value[1] = (@ + 1) % 256]
        /\ origin' = [origin EXCEPT ![t] = NoOrigin]
    /\ UNCHANGED <<btTables, btCells, dbTables>>

Next ==
    \/ SaveAll_Tables
    \/ SaveAll_Loop
    \/ SaveTable_Drop
    \/ SaveTable_Create
    \/ SaveTable_Prepare
    \/ SaveTable_ReadRows
    \/ SaveTable_Insert
    \/ Restore_Tables
    \/ Restore_DropAllRows
    \/ Restore_Query
    \/ Restore_Next
    \/ RestoreTable_Query
    \/ RestoreTable_Next
    \/ RestoreTable_ApplyBulk
    \/ EnvWriteCell
    \/ EnvDeleteTable
    \/ EnvCorruptRow

Spec == Init /\ [][Next]_vars

(***************************************************************************)
(* The batch specification: Restore runs on a snapshot of one table whose  *)
(* number of rows is around the multiples of the batch size.  The snapshot *)
(* is the one SaveTable writes for the cells BatchCell(1..n): one column   *)
(* with n versions, which ReadRows delivers newest first.                  *)
(***************************************************************************)
BatchCell(i) == Cell(Str_r, Str_f, Str_q, i * 1000, <<i % 256>>)

BatchRowCounts ==
    {0} \cup {n \in 1..MaxBatchRows : n >= BatchSize - 1}

\* the zone of the process that saved the snapshot: UTC
BatchSaveZone == 0

\* the row of the snapshot whose value was changed since the save: none (0)
\* or the last (the first row fails the check when the zones differ)
BatchCorruptRows(n) == {0} \cup ({n} \cap (1..n))

\* the snapshot with one byte of the value of row k changed
CorruptSnapshot(rows, k) ==
    IF k = 0 THEN rows
    ELSE [rows EXCEPT ![k].value[1] = (@ + 1) % 256]

BatchSnapshot(n, off) ==
    [j \in 1..n |-> SnapshotRow(Str_f, ReadItem(BatchCell(n + 1 - j)), off)]

InitBatch ==
    /\ btTables = {Str_a}
    /\ btCells = [t \in TableNames |-> IF t = Str_a THEN {EnvCell} ELSE {}]
    /\ dbTables = {Str_a}
    /\ \E n \in BatchRowCounts : \E off \in {BatchSaveZone} : \E k \in BatchCorruptRows(n) :
         /\ dbRows = [t \in TableNames |->
                         IF t = Str_a THEN CorruptSnapshot(BatchSnapshot(n, off), k)
                         ELSE <<>>]
         /\ origin = [t \in TableNames |->
                         IF t = Str_a /\ k = 0
                         THEN [saved |-> TRUE, cells |-> {BatchCell(i) : i \in 1..n}]
                         ELSE NoOrigin]
    /\ pc = "idle"
    /\ mode = "none"
    /\ loc = 0
    /\ result = "none"
    /\ tables = <<>>
    /\ ti = 1
    /\ table = <<>>
    /\ lastKey = <<>>
    /\ pending = <<>>
    /\ rowErr = <<>>
    /\ snaptables = <<>>
    /\ si = 0
    /\ rpos = 0
    /\ keys = <<>>
    /\ muts = <<>>
    /\ c = 0
    /\ runs = 0
    /\ envSteps = 0
    /\ log = <<>>
    /\ prev = NoPrev
    /\ dirty = FALSE

NextBatch ==
    \/ Restore_Tables
    \/ Restore_DropAllRows
    \/ Restore_Query
    \/ Restore_Next
    \/ RestoreTable_Query
    \/ RestoreTable_Next
    \/ RestoreTable_ApplyBulk

SpecBatch == InitBatch /\ [][NextBatch]_vars
(***************************************************************************)
(* What the log of the current process says.  An outside change empties    *)
(* the log and sets mode to "none": a formula about a process speaks of    *)
(* states in which its stores are as it left them.                         *)
(***************************************************************************)
IsBulk(e) == e.kind = "call" /\ e.op = "ApplyBulk"
BulkCalls(t) == SelectSeq(log, LAMBDA e : IsBulk(e) /\ e.table = t)

RECURSIVE Concat(_)
Concat(batches) ==
    IF batches = <<>> THEN <<>> ELSE Head(batches).batch \o Concat(Tail(batches))

\* the mutations sent for table t, in the order sent
Sent(t) == Concat(BulkCalls(t))

Returned(op, t, ok) == \E i \in DOMAIN log : log[i] = Event("ret", op, t, ok, <<>>)
HasReturned(op, t) == Returned(op, t, TRUE) \/ Returned(op, t, FALSE)

\* no call to a store failed, the iterations included
NoStoreError == \A i \in DOMAIN log : log[i].kind = "call" => log[i].ok

Increasing(l) == \A i, j \in DOMAIN l : i < j => StrLess(l[i], l[j])

TablesOf(events) == [i \in DOMAIN events |-> events[i].table]

\* the stored checksum of a row is the checksum of its fields in zone off
ChecksumMatches(row, off) ==
    row.chk = Checksum(row.key, row.column_family, row.column, row.value,
                       row.timestamp, off)

\* the cell a snapshot row records
CellOfRow(row) ==
    Cell(row.key, row.column_family, row.column, row.timestamp \div 1000, row.value)

\* the snapshot row of a cell, saved in zone off
RowOfCell(x, off) ==
    [key |-> x.row, column_family |-> x.family, column |-> x.qual, value |-> x.value,
     timestamp |-> x.ts * 1000,
     chk |-> Checksum(x.row, x.family, x.qual, x.value, x.ts * 1000, off)]

\* the rows of a table as a bag
BagOf(rows) ==
    [r \in Range(rows) |-> Cardinality({i \in DOMAIN rows : rows[i] = r})]

(***************************************************************************)
(* The claims.                                                             *)
(***************************************************************************)

\* C1: after a save that returned nil, a table restored by RestoreTable into
\* the cleared remote table, with no error of either store, holds exactly the
\* cells it held when SaveTable saved it.
C1_RoundTrip ==
    \A t \in TableNames :
        ( /\ mode = "restore"
          /\ prev.mode = "save"
          /\ prev.result = "ok"
          /\ prev.clean
          /\ origin[t].saved
          /\ \E i \in DOMAIN log : log[i] = Call("DropAllRows", t, TRUE)
          /\ HasReturned("RestoreTable", t)
          /\ NoStoreError )
        => btCells[t] = origin[t].cells

\* C2: RestoreTable never goes past a row whose stored checksum differs from
\* the recomputed one: it returns an error at that row, and what it has sent to
\* the remote store is a prefix of the table's rows, every one of them with a
\* matching checksum.
C2_CorruptionDetected ==
    mode = "restore" =>
        \A t \in TableNames :
            LET sent == Sent(t)
                rows == dbRows[t]
            IN  /\ Len(sent) <= Len(rows)
                /\ \A i \in 1..Len(sent) :
                        /\ ChecksumMatches(rows[i], loc)
                        /\ sent[i] = Mutation(rows[i])
                /\ (pc \in {"rt_next", "rt_flush", "rt_final"} /\ table = t)
                        => \A i \in 1..rpos : ChecksumMatches(rows[i], loc)
                /\ ( /\ Returned("RestoreTable", t, TRUE)
                     /\ ~\E i \in DOMAIN log : log[i] = Call("Next", t, FALSE) )
                        => \A i \in DOMAIN rows : ChecksumMatches(rows[i], loc)

\* C2's case: a table was restored and sent, then the restore of another table
\* stopped at a row whose value had been changed.
C2_Witness ==
    /\ mode = "restore"
    /\ pc = "idle"
    /\ result = "integrity check failed"
    /\ \E t \in TableNames : Sent(t) # <<>>
    /\ \E i \in DOMAIN dbRows[table] :
          /\ ~ChecksumMatches(dbRows[table][i], loc)
          /\ \E j \in DOMAIN dbRows[table] : ChecksumMatches(dbRows[table][j], loc)

\* C3: when all n rows of a table verify and no store call fails, RestoreTable
\* returns nil after exactly ceil(n / 100) bulk-apply calls, each but the last
\* of 100 entries, the last of 1 to 100.
C3_BatchCount ==
    \A t \in TableNames :
        ( /\ mode = "restore"
          /\ HasReturned("RestoreTable", t)
          /\ NoStoreError
          /\ \A i \in DOMAIN dbRows[t] : ChecksumMatches(dbRows[t][i], loc) )
        => LET calls == BulkCalls(t)
               n     == Len(dbRows[t])
           IN  /\ Returned("RestoreTable", t, TRUE)
               /\ Len(calls) = (n + BatchSize - 1) \div BatchSize
               /\ \A j \in 1..Len(calls) :
                     /\ j < Len(calls) => Len(calls[j].batch) = BatchSize
                     /\ Len(calls[j].batch) >= 1
                     /\ Len(calls[j].batch) <= BatchSize
               /\ Len(Sent(t)) = n

\* C3's case: 101 rows restored without error, in two calls.
C3_Witness ==
    \E t \in TableNames :
        /\ mode = "restore"
        /\ Len(dbRows[t]) = BatchSize + 1
        /\ NoStoreError
        /\ Returned("RestoreTable", t, TRUE)
        /\ Len(BulkCalls(t)) = 2

\* C4: when SaveTable(T) has returned nil, snapshot table T holds exactly one
\* row per cell of remote table T (key, family, unqualified column, value,
\* nanoseconds, checksum) and nothing else, whatever it held before.
C4_FullOverwrite ==
    mode = "save" =>
        \A t \in TableNames :
            Returned("SaveTable", t, TRUE) =>
                /\ t \in dbTables
                /\ Range(dbRows[t]) = {RowOfCell(x, loc) : x \in btCells[t]}
                /\ Len(dbRows[t]) = Cardinality(btCells[t])

\* C4's case: the table held part of its rows, left by a save that was aborted.
C4_Witness ==
    \E t \in TableNames :
        /\ mode = "save"
        /\ Returned("SaveTable", t, TRUE)
        /\ prev.mode = "save"
        /\ prev.result = "error"
        /\ prev.rows[t] # <<>>
        /\ Len(prev.rows[t]) < Cardinality(btCells[t])

\* C5: a save that follows a save, the remote store unchanged and nothing
\* changed in between, leaves in every snapshot table the rows the first left,
\* with the same checksums.
C5_SaveIdempotent ==
    ( /\ pc = "idle"
      /\ mode = "save"
      /\ result = "ok"
      /\ prev.mode = "save"
      /\ prev.result = "ok"
      /\ prev.clean )
    => \A t \in TableNames : BagOf(dbRows[t]) = BagOf(prev.rows[t])

\* C6: after a Restore that returned nil, every remote table holds exactly the
\* cells its snapshot table records, and no cell when it has no snapshot table.
C6_CompleteReplace ==
    (pc = "idle" /\ mode = "restore" /\ result = "ok") =>
        \A t \in btTables :
            btCells[t] = IF t \in dbTables
                         THEN {CellOfRow(dbRows[t][i]) : i \in DOMAIN dbRows[t]}
                         ELSE {}

\* C7 as claimed: every bulk-apply call to a table T comes after a successful
\* dropAllRows of T by the same process.
C7_ClearBeforeWrite ==
    \A i \in DOMAIN log :
        IsBulk(log[i]) =>
            \E j \in 1..(i - 1) : log[j] = Call("DropAllRows", log[i].table, TRUE)

\* C7 as amended: every bulk-apply call comes after a successful dropAllRows of
\* every table of the remote listing (hence of T itself when T was listed), and
\* none is made when a clear failed.
C7_ClearBeforeWriteListed ==
    mode = "restore" =>
        /\ \A i \in DOMAIN log :
              IsBulk(log[i]) =>
                  \A t \in Range(tables) :
                      \E j \in 1..(i - 1) : log[j] = Call("DropAllRows", t, TRUE)
        /\ (\E i \in DOMAIN log : log[i].op = "DropAllRows" /\ ~log[i].ok)
              => ~\E i \in DOMAIN log : IsBulk(log[i])

\* C7's case: a bulk-apply call to a listed table, three tables listed.
C7_Witness ==
    /\ mode = "restore"
    /\ Len(tables) = Cardinality(TableNames)
    /\ \E i \in DOMAIN log : IsBulk(log[i]) /\ log[i].table \in Range(tables)

\* C8: SaveAll calls SaveTable on the remote tables in lexicographic order of
\* their names, on each at most once, none skipped, and on the next only when
\* the one before has returned.
C8_SaveOrder ==
    mode = "save" =>
        LET ev     == SelectSeq(log, LAMBDA e : e.op = "SaveTable")
            enters == SelectSeq(ev, LAMBDA e : e.kind = "enter")
        IN  /\ \A i \in DOMAIN ev :
                  IF i % 2 = 1 THEN ev[i].kind = "enter"
                  ELSE ev[i].kind = "ret" /\ ev[i].table = ev[i - 1].table
            /\ Increasing(TablesOf(enters))
            /\ \A i \in DOMAIN enters :
                  /\ enters[i].table \in btTables
                  /\ \A t \in btTables :
                        StrLess(t, enters[i].table)
                            => \E j \in 1..(i - 1) : enters[j].table = t

\* C8's case: three tables saved.
C8_Witness ==
    /\ mode = "save"
    /\ pc = "idle"
    /\ result = "ok"
    /\ Cardinality({t \in TableNames : Returned("SaveTable", t, TRUE)}) = 3

\* C9: Restore clears the remote tables in lexicographic order of their names
\* and calls RestoreTable in lexicographic order of the names.
C9_RestoreOrder ==
    mode = "restore" =>
        /\ Increasing(TablesOf(SelectSeq(log, LAMBDA e : e.op = "DropAllRows")))
        /\ Increasing(TablesOf(SelectSeq(log,
                LAMBDA e : e.op = "RestoreTable" /\ e.kind = "enter")))

\* an error that SaveTable, RestoreTable, DropAllRows or the enumeration of the
\* tables returned to SaveAll or Restore
ReturnedError(e) ==
    \/ e.kind = "ret" /\ ~e.ok
    \/ /\ e.kind = "call"
       /\ ~e.ok
       /\ \/ e.op \in {"Tables", "DropAllRows", "QueryTables"}
          \/ e.op = "Scan" /\ e.table = <<>>

C11_ChecksumAgreement ==
    mode = "restore" =>
        \A t \in TableNames :
            origin[t].saved =>
                \A i \in DOMAIN dbRows[t] : Verifies(dbRows[t][i], loc)

\* C12: every row SaveTable has inserted for the table it saves records a cell
\* of the remote table under its family F, with the column the store returned
\* less one leading "F:", and with the checksum of that stripped column.
C12_PrefixStripped ==
    mode = "save" =>
        \A t \in TableNames :
            (\E j \in DOMAIN log : log[j] = Call("DropTable", t, TRUE)) =>
                \A i \in DOMAIN dbRows[t] :
                    LET row == dbRows[t][i]
                    IN  /\ \E x \in btCells[t] :
                              /\ row.key = x.row
                              /\ row.column_family = x.family
                              /\ row.timestamp = UnixNano(x.ts)
                              /\ row.value = x.value
                              /\ ReadItem(x).Column
                                    = row.column_family \o <<58>> \o row.column
                        /\ row.chk = Checksum(row.key, row.column_family, row.column,
                                              row.value, row.timestamp, loc)

\* C12's case: the qualifier "g:q" of family "g", returned as "g:g:q", is
\* stored as "g:q".
C12_Witness ==
    /\ mode = "save"
    /\ \E j \in DOMAIN log : log[j] = Call("DropTable", Str_a, TRUE)
    /\ \E i \in DOMAIN dbRows[Str_a] :
          /\ dbRows[Str_a][i].column_family = Str_g
          /\ dbRows[Str_a][i].column = <<103, 58, 113>>

\* the keys of a batch sent, and the cells of a table once the store has
\* applied every entry of the batches
BatchKeys(batch) == [i \in DOMAIN batch |-> batch[i].key]
AppliedAll(cells, batch) ==
    ApplyMutations(cells, BatchKeys(batch), batch, [i \in DOMAIN batch |-> TRUE])

\* C13: a bulk-apply call that returned an error, or an error for at least one
\* entry, is the last call of the process: RestoreTable returns an error right
\* after it, nothing is deleted or written afterwards, and the table holds what
\* the earlier batches and the applied entries of the failed batch wrote.  A
\* batch that did not fail was applied whole.
C13_BulkFailure ==
    mode = "restore" =>
        /\ \A i \in DOMAIN log :
              (IsBulk(log[i]) /\ ~log[i].ok) =>
                  /\ i = Len(log) - 1
                  /\ log[Len(log)] = Event("ret", "RestoreTable", log[i].table, FALSE, <<>>)
                  /\ pc = "idle"
                  /\ result = "failed to write to bigtable"
        /\ \A t \in btTables :
              (\E j \in DOMAIN log : log[j] = Call("DropAllRows", t, TRUE)) =>
                  LET calls == BulkCalls(t)
                      base  == AppliedAll({}, Concat(SelectSeq(calls, LAMBDA e : e.ok)))
                  IN  IF calls # <<>> /\ ~calls[Len(calls)].ok
                      THEN LET b == calls[Len(calls)].batch
                           IN  \E out \in BulkOutcomes(Len(b)) :
                                   /\ out.err \/ \E i \in DOMAIN b : out.errs[i] # "nil"
                                   /\ btCells[t] =
                                        ApplyMutations(base, BatchKeys(b), b,
                                            [i \in DOMAIN b |-> out.errs[i] = "nil"])
                      ELSE btCells[t] = base

\* C13's case: the first batch of 100 was applied, the second, of two entries,
\* failed with one of them applied: the table holds 101 cells.
C13_Witness ==
    /\ mode = "restore"
    /\ pc = "idle"
    /\ LET calls == BulkCalls(Str_a)
       IN  /\ Len(calls) = 2
           /\ calls[1].ok
           /\ ~calls[2].ok
           /\ Len(calls[2].batch) = 2
    /\ Cardinality(btCells[Str_a]) = BatchSize + 1

\* C14: a failed insert is the last call SaveTable makes: no further insert is
\* attempted, for the other cells of the row or for a later row, the table
\* holds the rows inserted before it, and SaveTable returns at once the error
\* that names the key of the row being saved; a failure of the remote stream
\* makes SaveTable return an error likewise.
C14_InsertFailure ==
    mode = "save" =>
        /\ \A i \in DOMAIN log :
              ( /\ log[i].kind = "call"
                /\ log[i].op \in {"Insert", "ReadRows"}
                /\ ~log[i].ok ) =>
                  LET t == log[i].table
                  IN  /\ i = Len(log) - 1
                      /\ log[Len(log)] = Event("ret", "SaveTable", t, FALSE, <<>>)
                      /\ pc = "idle"
                      /\ table = t
                      /\ IF log[i].op = "Insert"
                         THEN /\ result = "failed to save row"
                              /\ pending # <<>>
                              /\ rowErr = Head(pending).item.Row
                              /\ rowErr = lastKey
                              /\ Len(dbRows[t]) = Len(SelectSeq(log,
                                    LAMBDA e : e = Call("Insert", t, TRUE)))
                         ELSE /\ result = "failure while iterating rows"
                              /\ rowErr = <<>>
        /\ (~\E i \in DOMAIN log : log[i].op = "Insert" /\ ~log[i].ok) => rowErr = <<>>

\* C14's case: the insert of the first of the two cells of row "r" failed; the
\* second cell was never inserted.
C14_Witness ==
    /\ mode = "save"
    /\ pc = "idle"
    /\ result = "failed to save row"
    /\ table = Str_a
    /\ rowErr = Str_r
    /\ Len(pending) = 2
    /\ dbRows[Str_a] = <<>>

\* C15: when the iteration over the snapshot's tables, or over the rows of a
\* table, ends because it failed, RestoreTable does not return nil for that
\* table and the process does not return nil.
C15_StreamFailureAborts ==
    mode = "restore" =>
        \A i \in DOMAIN log :
            (log[i].kind = "call" /\ log[i].op = "Next" /\ ~log[i].ok) =>
                /\ ~Returned("RestoreTable", log[i].table, TRUE)
                /\ pc = "idle" => result # "ok"

\* C16: a Restore that returns nil after a Restore that was aborted, the
\* snapshot unchanged, leaves in every remote table what its own bulk-apply
\* calls wrote and nothing else, which is what a Restore that follows no
\* aborted one leaves: the rows of the snapshot table when no iteration failed,
\* nothing when the table has no snapshot table.
C16_RestoreRerun ==
    ( /\ pc = "idle"
      /\ mode = "restore"
      /\ result = "ok"
      /\ prev.mode = "restore"
      /\ prev.result = "error"
      /\ prev.clean )
    => \A t \in btTables :
          /\ dbRows[t] = prev.rows[t]
          /\ btCells[t] = AppliedAll({}, Sent(t))
          /\ (NoStoreError /\ t \in dbTables /\ ListedBySqlite(t))
                => btCells[t] = {CellOfRow(dbRows[t][i]) : i \in DOMAIN dbRows[t]}
          /\ t \notin dbTables => btCells[t] = {}

\* C16's case: the aborted Restore had called ApplyBulk, the second Restore
\* restored the 102 rows.
C16_Witness ==
    /\ pc = "idle"
    /\ mode = "restore"
    /\ result = "ok"
    /\ prev.mode = "restore"
    /\ prev.result = "error"
    /\ prev.wrote
    /\ NoStoreError
    /\ Len(Sent(Str_a)) = BatchSize + 2

\* C17: inside RestoreTable the pending batch has as many keys as mutations,
\* at most 100, keys[i] the row key of muts[i]; it holds the rows read since
\* the last flush, so it is empty when the table's restore starts and right
\* after each flush; every batch sent to a table is made of rows of that table.
C17_BatchInvariant ==
    mode = "restore" =>
        /\ pc \in {"rt_next", "rt_flush", "rt_final"} =>
              LET n == Len(muts)
              IN  /\ Len(keys) = n
                  /\ n <= BatchSize
                  /\ n = rpos - BatchSize * Len(BulkCalls(table))
                  /\ \A i \in 1..n :
                        /\ keys[i] = dbRows[table][rpos - n + i].key
                        /\ muts[i] = Mutation(dbRows[table][rpos - n + i])
                  /\ pc = "rt_next" => n < BatchSize
                  /\ pc = "rt_flush" => n = BatchSize
                  /\ pc = "rt_final" => n >= 1
        /\ \A i \in DOMAIN log :
              IsBulk(log[i]) =>
                  LET rows == dbRows[log[i].table]
                  IN  \A j \in DOMAIN log[i].batch :
                          \E r \in DOMAIN rows : log[i].batch[j] = Mutation(rows[r])

\* C17's case: the first row after a flush of 100: the batch holds it alone.
C17_Witness ==
    /\ mode = "restore"
    /\ pc = "rt_next"
    /\ rpos = BatchSize + 1
    /\ Len(BulkCalls(table)) = 1
    /\ keys = <<dbRows[table][rpos].key>>
    /\ muts = <<Mutation(dbRows[table][rpos])>>

\* C18: when RestoreTable has returned nil for a table, the batches it sent, in
\* the order sent, are the rows of the snapshot table in storage order, each
\* row once, as the cell it records.
C18_ExactlyOnceInOrder ==
    mode = "restore" =>
        \A t \in TableNames :
            Returned("RestoreTable", t, TRUE) =>
                Sent(t) = [i \in DOMAIN dbRows[t] |-> Mutation(dbRows[t][i])]

\* the rows in whole batches among the first n: 100 * floor(n / 100)
WholeBatches(n) == BatchSize * (n \div BatchSize)

\* C19: when RestoreTable has stopped at row k because its checksum does not
\* match (rpos = k - 1 rows were read before it), it has sent the first
\* 100 * floor((k - 1) / 100) rows, in batches of
\* 100, and nothing else: the rows verified since the last flush were in the
\* pending batch and are not written, and the table, cleared before, holds the
\* cells of those whole batches only.
C19_MismatchLeavesWholeBatches ==
    (mode = "restore" /\ pc = "idle" /\ result = "integrity check failed") =>
        /\ rpos + 1 \in DOMAIN dbRows[table]
        /\ ~ChecksumMatches(dbRows[table][rpos + 1], loc)
        /\ \A i \in 1..rpos : ChecksumMatches(dbRows[table][i], loc)
        /\ Sent(table) = [i \in 1..WholeBatches(rpos) |-> Mutation(dbRows[table][i])]
        /\ \A j \in DOMAIN BulkCalls(table) :
              Len(BulkCalls(table)[j].batch) = BatchSize
        /\ Len(muts) = rpos % BatchSize
        /\ (\E j \in DOMAIN log : log[j] = Call("DropAllRows", table, TRUE))
              => btCells[table] =
                    {CellOfRow(dbRows[table][i]) : i \in 1..WholeBatches(rpos)}

\* C19's case: row 102 does not match; 100 rows were sent, row 101 was pending
\* and is not in the table.
C19_Witness ==
    /\ mode = "restore"
    /\ pc = "idle"
    /\ result = "integrity check failed"
    /\ rpos = BatchSize + 1
    /\ Len(muts) = 1
    /\ Len(Sent(table)) = BatchSize
    /\ Cardinality(btCells[table]) = BatchSize
=============================================================================
